---- MODULE Spec2Model ----
(***************************************************************************)
(* prefect-postgres: two Block classes.                                    *)
(*   prefect_postgres/credentials.py  PostgresDatabaseCredentials          *)
(*   prefect_postgres/blocks.py       PostgresBlock                        *)
(*                                                                         *)
(* Every behaviour starts before either module has been executed.          *)
(* Spec            the modules are executed, PostgresBlock is used.        *)
(* SpecCredentials credentials.py is executed, PostgresDatabaseCredentials *)
(*                 is used.                                                *)
(***************************************************************************)
EXTENDS Integers, Sequences, FiniteSets, TLC

VARIABLES credModule, blocksModule, cred, lastCred, calls, invocations,
          storage, block, lastOp

vars == <<credModule, blocksModule, cred, lastCred, calls, invocations,
          storage, block, lastOp>>

credVars == <<cred, lastCred, calls, invocations>>
blockVars == <<storage, block, lastOp>>

\* ------------------------------------------------------------- bounds
MaxCalls == 3

\* ------------------------------------------------------ Python values
PyNone == [t |-> "NoneType", s |-> "", d |-> <<>>]
Str(x) == [t |-> "str", s |-> x, d |-> <<>>]
SecretStr(x) == [t |-> "SecretStr", s |-> x, d |-> <<>>]
Dict(f) == [t |-> "dict", s |-> "", d |-> f]

\* ------------------------------------------- module top-level execution
Builtins == {"str", "classmethod"}

CredentialsImports ==
    {"psycopg", "Any", "Dict", "Optional", "Union", "SecretStr", "Block", "connect"}

CredentialsClassBodyNames ==
    {"Block", "Optional", "str", "Field", "SecretStr", "Dict", "Any", "psycopg"}

BlocksImports == {"Block", "Field"}

BlocksClassBodyNames == {"Block", "str", "Field", "classmethod"}

exec_module(imports, used) ==
    IF used \subseteq (imports \cup Builtins) THEN "defined" ELSE "NameError"

ExecCredentialsModule ==
    /\ credModule = "unloaded"
    /\ credModule' = exec_module(CredentialsImports, CredentialsClassBodyNames)
    /\ UNCHANGED <<blocksModule, credVars, blockVars>>

ExecBlocksModule ==
    /\ blocksModule = "unloaded"
    /\ blocksModule' = exec_module(BlocksImports, BlocksClassBodyNames)
    /\ UNCHANGED <<credModule, credVars, blockVars>>

\* ---------------------------------------- PostgresDatabaseCredentials
CredentialFields ==
    {"username", "password", "database", "host", "port", "connect_args"}

ConnectArgsValues ==
    { <<>>,
      ("sslmode" :> Str("require")),
      ("sslmode" :> Str("require")) @@ ("connect_timeout" :> Str("10")) }

ArgValues(f) ==
    CASE f = "connect_args" -> {Dict(m) : m \in ConnectArgsValues}
      [] f = "port" -> {Str("5432")}
      [] f = "password" -> {Str("a"), Str("pw")}
      [] OTHER -> {Str("a"), Str("b")}

Omitted == [t |-> "omitted", s |-> "", d |-> <<>>]

Supplied(f) == {Omitted} \cup ArgValues(f)

keywords(c) == [f \in {g \in CredentialFields : c[g] # Omitted} |-> c[f]]

ConstructorArgs ==
    { keywords([username |-> u, password |-> p, database |-> db,
                host |-> h, port |-> po, connect_args |-> ca]) :
        u \in Supplied("username"), p \in Supplied("password"),
        db \in Supplied("database"), h \in Supplied("host"),
        po \in Supplied("port"), ca \in Supplied("connect_args") }

field_value(f, kw) ==
    IF f \notin DOMAIN kw THEN PyNone
    ELSE IF f = "password" /\ kw[f].t = "str" THEN SecretStr(kw[f].s)
    ELSE kw[f]

PostgresDatabaseCredentials(kw) ==
    [f \in CredentialFields |-> field_value(f, kw)]

\* One construction is attempted in a behaviour: PostgresDatabaseCredentials(**kw)
\* after the import of the module, which leaves the class defined or has failed.
ConstructCredentials ==
    /\ credModule # "unloaded"
    /\ lastCred.op = "none"
    /\ \E kw \in ConstructorArgs :
         IF credModule = "defined"
         THEN /\ cred' = <<PostgresDatabaseCredentials(kw)>>
              /\ lastCred' = [op |-> "construct", err |-> "ok", kw |-> kw]
         ELSE /\ cred' = cred
              /\ lastCred' = [op |-> "construct", err |-> credModule, kw |-> kw]
    /\ UNCHANGED <<credModule, blocksModule, calls, invocations, blockVars>>

connect_kwargs(self) ==
    [database |-> self.database,
     user |-> self.username,
     password |-> self.password,
     host |-> self.host,
     port |-> self.port,
     connect_args |-> self.connect_args]

get_connection(self, response) ==
    [self |-> self,
     calls |-> <<connect_kwargs(self)>>,
     outcome |-> response]

\* psycopg.AsyncConnection.connect, the driver: the n-th call it receives either
\* raises one of its errors or returns a new connection object, numbered n.
DriverErrors == {"OperationalError", "ProgrammingError"}

Raise(e) == [t |-> "raise", err |-> e, conn |-> 0]
Return(n) == [t |-> "return", err |-> "", conn |-> n]

DriverResponse(n) == {Raise(e) : e \in DriverErrors} \cup {Return(n)}

\* record.get_connection() in the session that attempted the construction, with
\* the driver set to answer its next call with `response`. Where the construction
\* failed there is no record and the session's error is the outcome.
GetConnection ==
    /\ lastCred.op = "construct"
    /\ Len(invocations) < MaxCalls
    /\ \E response \in DriverResponse(Len(calls) + 1) :
         IF cred # <<>>
         THEN LET r == get_connection(cred[1], response) IN
                /\ cred' = <<r.self>>
                /\ calls' = calls \o r.calls
                /\ invocations' = Append(invocations,
                       [kw |-> lastCred.kw, driver |-> response,
                        calls |-> r.calls, outcome |-> r.outcome])
         ELSE /\ cred' = cred
              /\ calls' = calls
              /\ invocations' = Append(invocations,
                     [kw |-> lastCred.kw, driver |-> response,
                      calls |-> <<>>, outcome |-> Raise(lastCred.err)])
    /\ UNCHANGED <<credModule, blocksModule, lastCred, blockVars>>

\* ------------------------------------------------------ PostgresBlock
BlockNames == {"sample-block", "other"}

BlockValueArgs == {PyNone, Str("A sample value"), Str("x")}

BlockConstructorArgs == {<<>>} \cup {[value |-> v] : v \in BlockValueArgs}

\* The field is declared with None as its default.
PostgresBlock_default_none(kw) ==
    IF "value" \notin DOMAIN kw
    THEN [err |-> "ok", obj |-> <<[value |-> PyNone]>>]
    ELSE IF kw.value.t = "str"
    THEN [err |-> "ok", obj |-> <<[value |-> kw.value]>>]
    ELSE [err |-> "ValidationError", obj |-> <<>>]

PostgresBlock(kw) ==
    IF "value" \notin DOMAIN kw
    THEN [err |-> "ok", obj |-> <<[value |-> Str("The default value")]>>]
    ELSE IF kw.value.t = "str"
    THEN [err |-> "ok", obj |-> <<[value |-> kw.value]>>]
    ELSE [err |-> "ValidationError", obj |-> <<>>]

\* The document of a block: the mapping declared field -> JSON value.
\* The field is declared as excluded from the document.
block_document_excludes_value(b) == <<>>

block_document(b) == [value |-> b.value.s]

\* Block.save / Block.load, the block storage: documents kept by name.
save(store, name, b, overwrite) ==
    IF name \in DOMAIN store /\ ~overwrite
    THEN [err |-> "ValueError", storage |-> store]
    ELSE [err |-> "ok",
          storage |-> [n \in DOMAIN store \cup {name} |->
                          IF n = name THEN block_document(b) ELSE store[n]]]

load(store, name) ==
    IF name \notin DOMAIN store
    THEN [err |-> "ValueError", obj |-> <<>>]
    ELSE PostgresBlock([k \in DOMAIN store[name] |-> Str(store[name][k])])

\* The sample block is saved without overwrite.
seed_value_for_example_no_overwrite(store) ==
    LET b == PostgresBlock([value |-> Str("A sample value")])
    IN  save(store, "sample-block", b.obj[1], FALSE)

seed_value_for_example(store) ==
    LET b == PostgresBlock([value |-> Str("A sample value")])
    IN  save(store, "sample-block", b.obj[1], TRUE)

Op(op, name, overwrite, err) ==
    [op |-> op, name |-> name, overwrite |-> overwrite, err |-> err, pre |-> storage]

ConstructBlock ==
    /\ blocksModule = "defined"
    /\ \E kw \in BlockConstructorArgs :
         LET r == PostgresBlock(kw) IN
           /\ block' = IF r.err = "ok" THEN r.obj ELSE block
           /\ lastOp' = Op(IF kw = <<>> THEN "construct_default" ELSE "construct",
                           "", FALSE, r.err)
    /\ UNCHANGED <<credModule, blocksModule, credVars, storage>>

SaveBlock ==
    /\ blocksModule = "defined"
    /\ block # <<>>
    /\ \E name \in BlockNames, overwrite \in BOOLEAN :
         LET r == save(storage, name, block[1], overwrite) IN
           /\ storage' = r.storage
           /\ lastOp' = Op("save", name, overwrite, r.err)
    /\ UNCHANGED <<credModule, blocksModule, credVars, block>>

LoadBlock ==
    /\ blocksModule = "defined"
    /\ \E name \in BlockNames :
         LET r == load(storage, name) IN
           /\ block' = IF r.err = "ok" THEN r.obj ELSE block
           /\ lastOp' = Op("load", name, FALSE, r.err)
    /\ UNCHANGED <<credModule, blocksModule, credVars, storage>>

SeedValueForExample ==
    /\ blocksModule = "defined"
    /\ LET r == seed_value_for_example(storage) IN
         /\ storage' = r.storage
         /\ lastOp' = Op("seed_value_for_example", "sample-block", TRUE, r.err)
    /\ UNCHANGED <<credModule, blocksModule, credVars, block>>

\* ------------------------------------------------------ specifications
NoOp == [op |-> "none", name |-> "", overwrite |-> FALSE, err |-> "ok", pre |-> <<>>]
NoCredOp == [op |-> "none", err |-> "ok", kw |-> <<>>]

Init ==
    /\ credModule = "unloaded"
    /\ blocksModule = "unloaded"
    /\ cred = <<>>
    /\ lastCred = NoCredOp
    /\ calls = <<>>
    /\ invocations = <<>>
    /\ storage = <<>>
    /\ block = <<>>
    /\ lastOp = NoOp

Next ==
    \/ ExecCredentialsModule
    \/ ExecBlocksModule
    \/ ConstructBlock
    \/ SaveBlock
    \/ LoadBlock
    \/ SeedValueForExample

Spec == Init /\ [][Next]_vars

NextCredentials ==
    \/ ExecCredentialsModule
    \/ ConstructCredentials
    \/ GetConnection

SpecCredentials == Init /\ [][NextCredentials]_vars

\* ------------------------------------------------------------- claims
Invocations == {invocations[i] : i \in 1..Len(invocations)}

Calls(inv) == {inv.calls[j] : j \in 1..Len(inv.calls)}

DriverKeywords == {"database", "user", "password", "host", "port"}

\* The value of field f of a record constructed with the keyword arguments kw.
Given(kw, f) == IF f \in DOMAIN kw THEN kw[f] ELSE PyNone

\* C1: when connect_args is a mapping, get_connection calls the driver's connect
\* with every entry of the mapping as a keyword parameter of its own, and with no
\* keyword parameter named connect_args.
C1_ConnectArgsSpread ==
    \A inv \in Invocations :
        "connect_args" \in DOMAIN inv.kw =>
            /\ inv.calls # <<>>
            /\ \A c \in Calls(inv) :
                  /\ \A k \in DOMAIN inv.kw.connect_args.d :
                        /\ k \in DOMAIN c
                        /\ c[k] = inv.kw.connect_args.d[k]
                  /\ "connect_args" \notin DOMAIN c

\* C2: when the password is present, get_connection calls the driver's connect
\* with the plain string of the password, not the SecretStr that the record holds.
C2_PasswordUnwrapped ==
    \A inv \in Invocations :
        "password" \in DOMAIN inv.kw =>
            /\ inv.calls # <<>>
            /\ \A c \in Calls(inv) : c.password = Str(inv.kw.password.s)

\* C3: get_connection calls connect with database, user, host and port equal to
\* the record's database, username, host and port (port as the stored text), and
\* returns the object that the driver's call produced.
C3_ForwardsFieldsAndReturns ==
    \A inv \in Invocations :
        /\ inv.calls # <<>>
        /\ inv.calls[1].database = Given(inv.kw, "database")
        /\ inv.calls[1].user = Given(inv.kw, "username")
        /\ inv.calls[1].host = Given(inv.kw, "host")
        /\ inv.calls[1].port = Given(inv.kw, "port")
        /\ inv.driver.t = "return" => inv.outcome = inv.driver

\* C4: when the driver's connect fails, get_connection ends in that same error
\* and connect was called once by that get_connection call.
C4_ErrorPropagatesNoRetry ==
    \A inv \in Invocations :
        inv.driver.t = "raise" =>
            /\ inv.outcome = inv.driver
            /\ Len(inv.calls) = 1

\* C5: constructing the credentials record succeeds for every subset of supplied
\* fields, and every field that was not supplied is absent (None).
C5_ConstructionSucceeds ==
    lastCred.op = "construct" =>
        /\ lastCred.err = "ok"
        /\ cred # <<>>
        /\ \A f \in CredentialFields \ DOMAIN lastCred.kw : cred[1][f] = PyNone

\* C6: seed_value_for_example ends without error whatever the storage held, then
\* loading sample-block gives the value "A sample value", and running it again
\* leaves the storage as it is.
C6_SeedOverwritesAndIsIdempotent ==
    lastOp.op = "seed_value_for_example" =>
        /\ lastOp.err = "ok"
        /\ load(storage, "sample-block") =
               [err |-> "ok", obj |-> <<[value |-> Str("A sample value")]>>]
        /\ seed_value_for_example(storage) = [err |-> "ok", storage |-> storage]

C6_Witness ==
    /\ lastOp.op = "seed_value_for_example"
    /\ "sample-block" \in DOMAIN lastOp.pre
    /\ lastOp.pre["sample-block"] # [value |-> "A sample value"]
    /\ "other" \in DOMAIN storage

\* C7: after save(name, overwrite=True), load(name) gives a record with the field
\* values of the record that was saved, whether or not the name was in use.
C7_SaveLoadRoundTrip ==
    (lastOp.op = "save" /\ lastOp.overwrite) =>
        /\ lastOp.err = "ok"
        /\ load(storage, lastOp.name) = [err |-> "ok", obj |-> block]

C7_Witness ==
    /\ lastOp.op = "save"
    /\ lastOp.overwrite
    /\ lastOp.name \in DOMAIN lastOp.pre
    /\ lastOp.pre[lastOp.name] # block_document(block[1])
    /\ block[1].value = Str("x")

\* C8: a block constructed without a value has the value "The default value",
\* and the value of a block in memory or in storage is always a string, never None.
C8_ValueDefaultNeverNull ==
    /\ (lastOp.op = "construct_default" => block = <<[value |-> Str("The default value")]>>)
    /\ block # <<>> => block[1].value.t = "str"
    /\ \A n \in DOMAIN storage : load(storage, n).obj[1].value.t = "str"

C8_Witness ==
    /\ lastOp.op = "construct_default"
    /\ block = <<[value |-> Str("The default value")]>>
    /\ DOMAIN storage # {}

\* C9: get_connection leaves the record's fields as they were and keeps nothing
\* between calls: n calls of it make n calls of the driver's connect, all with the
\* same parameters, and each returns the object of its own connect call.
C9_NoStateBetweenCalls ==
    /\ cred # <<>> => cred[1] = PostgresDatabaseCredentials(lastCred.kw)
    /\ Len(calls) = Len(invocations)
    /\ \A i, j \in 1..Len(calls) : calls[i] = calls[j]
    /\ \A i, j \in 1..Len(invocations) :
          (i # j /\ invocations[i].outcome.t = "return"
                 /\ invocations[j].outcome.t = "return")
              => invocations[i].outcome.conn # invocations[j].outcome.conn

\* C10: when connect_args is absent, get_connection calls the driver's connect with
\* the keyword parameters database, user, password, host and port and no other.
C10_NoExtraKeywordWhenAbsent ==
    \A inv \in Invocations :
        "connect_args" \notin DOMAIN inv.kw =>
            /\ inv.calls # <<>>
            /\ \A c \in Calls(inv) : DOMAIN c = DriverKeywords

====
